---- MODULE Spec2Model ----
(***************************************************************************)
(* equgrad.py: a symbolic algebra library.  Expressions are Python objects *)
(* (Number, Symbol, SumType, ProductType, QuotientType, PowType) that      *)
(* refer to each other; the model keeps them in a heap so that object      *)
(* identity (Symbols are dictionary keys by identity) and list mutation    *)
(* are visible.  Every method is an operator from a heap and its operands  *)
(* to a new heap and an outcome (a Python value or a raised exception).    *)
(* Note: as shipped the file has `from __future__ import annotations` on   *)
(* its second import line, which CPython rejects; the model is of the      *)
(* classes as written, i.e. with that import moved first.                  *)
(***************************************************************************)
EXTENDS Integers, Sequences, FiniteSets, TLC

\* ---------------------------------------------------------------- bounds
MaxHeap == 3        \* objects the caller builds before calling an operation
MaxSmall == 2       \* the same, in the smaller specification SpecSmall
MaxNameLen == 2     \* length of the strings tried as Symbol names

Chars == {"x", "y", "1"}        \* characters the tried names are made of
NumberValues == {0, 1, 2}       \* values given to Number(...)
Floats == {0, 1}                \* values bound to names in `symbols`; closed
                                \* under / (nonzero divisor) and **, so the
                                \* float results are exact

\* string.ascii_letters, one character per element
ascii_letters ==
  << "a","b","c","d","e","f","g","h","i","j","k","l","m",
     "n","o","p","q","r","s","t","u","v","w","x","y","z",
     "A","B","C","D","E","F","G","H","I","J","K","L","M",
     "N","O","P","Q","R","S","T","U","V","W","X","Y","Z" >>

\* the strings offered to Symbol(...): every string over Chars up to MaxNameLen
Names == UNION { [1..n -> Chars] : n \in 0..MaxNameLen }

\* ---------------------------------------------------------- Python values
\* A Python value is None, a float/int, or a reference to a heap object; an
\* outcome is a value, a raised exception, or non-termination.
None == [t |-> "None", v |-> 0]
Num(n) == [t |-> "num", v |-> n]
Ref(o) == [t |-> "ref", v |-> o]
Raise(exc) == [t |-> exc, v |-> 0]
Hang == [t |-> "hang", v |-> 0]

Exceptions ==
  {"InvalidSymbolName", "AttributeError", "TypeError", "KeyError", "ZeroDivisionError"}

Abrupt(ret) == ret.t \in Exceptions \cup {"hang"}

\* the result of a method: the heap after it and its outcome
R(h, ret) == [heap |-> h, ret |-> ret]

\* allocation of a new object
New(h, obj) == R(Append(h, obj), Ref(Len(h) + 1))

\* type(value), for objects and for non-objects
Kind(h, pv) == IF pv.t = "ref" THEN h[pv.v].kind ELSE pv.t

\* --------------------------------------------------------------- classes
Number(value) == [kind |-> "Number", value |-> value]
Symbol(name) == [kind |-> "Symbol", name |-> name]
SumType(values) == [kind |-> "SumType", values |-> values]
ProductType(values) == [kind |-> "ProductType", values |-> values]
QuotientType(a, b) == [kind |-> "QuotientType", a |-> a, b |-> b]
PowType(a, b) == [kind |-> "PowType", a |-> a, b |-> b]

Composite == {"SumType", "ProductType", "QuotientType", "PowType"}

\* `name in ascii_letters`: Python's substring test on strings
InAsciiLetters(name) ==
  \E i \in 0..(Len(ascii_letters) - Len(name)) :
     SubSeq(ascii_letters, i + 1, i + Len(name)) = name

\* a plausible slip in Symbol.__init__: the length test left out
SymbolInitNoLen(h, name) ==
  IF ~ InAsciiLetters(name) THEN R(h, Raise("InvalidSymbolName"))
  ELSE New(h, Symbol(name))

\* Symbol.__init__
SymbolInit(h, name) ==
  IF Len(name) # 1 \/ ~ InAsciiLetters(name) THEN R(h, Raise("InvalidSymbolName"))
  ELSE New(h, Symbol(name))

\* ---------------------------------------------------- builder combinators
\* AlgebraicObject.__add__ .. __pow__ and __neg__: the body is `...`, so the
\* method returns None; SumType, ProductType, QuotientType, PowType inherit it
AlgebraicObjectOp(h) == R(h, None)

\* Number.__neg__
NumberNeg(h, self) == New(h, Number(- h[self.v].value))

\* Symbol.__neg__: reads self.value, which a Symbol does not have
SymbolNeg(h, self) == R(h, Raise("AttributeError"))

\* unary minus, dispatched on the operand's type
Neg(h, a) ==
  CASE Kind(h, a) = "Number" -> NumberNeg(h, a)
    [] Kind(h, a) = "Symbol" -> SymbolNeg(h, a)
    [] Kind(h, a) \in Composite -> AlgebraicObjectOp(h)
    [] Kind(h, a) = "num" -> R(h, Num(- a.v))
    [] OTHER -> R(h, Raise("TypeError"))

\* Number.__add__ / Symbol.__add__
LeafAdd(h, self, other) == New(h, SumType(<<self, other>>))

\* SumType([self, -other]) once -other has been computed (n)
LeafSubNegated(self, n) ==
  IF Abrupt(n.ret) THEN n ELSE New(n.heap, SumType(<<self, n.ret>>))

\* Number.__sub__ / Symbol.__sub__: -other is evaluated first
LeafSub(h, self, other) == LeafSubNegated(self, Neg(h, other))

\* Number.__mul__ / Symbol.__mul__
LeafMul(h, self, other) == New(h, ProductType(<<self, other>>))

\* Number.__truediv__ / Symbol.__truediv__
LeafTruediv(h, self, other) == New(h, QuotientType(self, other))

\* Number.__pow__ / Symbol.__pow__
LeafPow(h, self, other) == New(h, PowType(self, other))

\* x ** y on the floats of the model (y >= 0)
RECURSIVE IntPow(_, _)
IntPow(x, y) == IF y <= 0 THEN 1 ELSE x * IntPow(x, y - 1)

\* float (op) float
FloatOp(op, x, y) ==
  CASE op = "add" -> Num(x + y)
    [] op = "sub" -> Num(x - y)
    [] op = "mul" -> Num(x * y)
    [] op = "truediv" -> IF y = 0 THEN Raise("ZeroDivisionError") ELSE Num(x \div y)
    [] op = "pow" -> Num(IntPow(x, y))

\* a (op) b as Python dispatches it: the left operand's method when it is an
\* object of the library; float arithmetic on two floats; TypeError otherwise
\* (None has no operators, and no class defines a reflected operator)
BinaryOp(h, op, a, b) ==
  CASE Kind(h, a) \in {"Number", "Symbol"} ->
         (CASE op = "add" -> LeafAdd(h, a, b)
            [] op = "sub" -> LeafSub(h, a, b)
            [] op = "mul" -> LeafMul(h, a, b)
            [] op = "truediv" -> LeafTruediv(h, a, b)
            [] op = "pow" -> LeafPow(h, a, b))
    [] Kind(h, a) \in Composite -> AlgebraicObjectOp(h)
    [] Kind(h, a) = "num" /\ Kind(h, b) = "num" -> R(h, FloatOp(op, a.v, b.v))
    [] OTHER -> R(h, Raise("TypeError"))

\* --------------------------------------------------------------- evaluate
RECURSIVE Evaluate(_, _, _)
RECURSIVE EvaluateValues(_, _, _, _, _)

\* value += ..., with the sum (s) computed: on to the next item
EvaluateValuesAdded(values, i, symbols, s) ==
  IF Abrupt(s.ret) THEN s
  ELSE EvaluateValues(s.heap, values, i + 1, s.ret, symbols)

\* value += value.evaluate(symbols), with value.evaluate(symbols) computed (r);
\* no class defines __iadd__, so += is value = value + r
EvaluateValuesItem(values, i, symbols, r) ==
  IF Abrupt(r.ret) THEN r
  ELSE EvaluateValuesAdded(values, i, symbols,
                           BinaryOp(r.heap, "add", values[i], r.ret))

\* the loop of SumType.evaluate and ProductType.evaluate (the two bodies are
\* the same text): the loop variable is `value`, the accumulator's own name,
\* so each round rebinds value to the item and then to item + item.evaluate()
EvaluateValues(h, values, i, value, symbols) ==
  IF i > Len(values) THEN R(h, value)
  ELSE EvaluateValuesItem(values, i, symbols, Evaluate(h, values[i], symbols))

\* Number.evaluate: returns the Number object itself
NumberEvaluate(h, self, symbols) == R(h, self)

\* Symbol.evaluate: symbols[self.name]
SymbolEvaluate(h, self, symbols) ==
  IF h[self.v].name \in DOMAIN symbols THEN R(h, Num(symbols[h[self.v].name]))
  ELSE R(h, Raise("KeyError"))

\* SumType.evaluate: value = 0, the loop, return value
SumTypeEvaluate(h, self, symbols) ==
  EvaluateValues(h, h[self.v].values, 1, Num(0), symbols)

\* ProductType.evaluate: value = 0, the loop, return value
ProductTypeEvaluate(h, self, symbols) ==
  EvaluateValues(h, h[self.v].values, 1, Num(0), symbols)

\* ra (op) self.b.evaluate(symbols), both operands computed
EvaluatePairBoth(op, ra, rb) ==
  IF Abrupt(rb.ret) THEN rb ELSE BinaryOp(rb.heap, op, ra.ret, rb.ret)

\* self.a.evaluate(symbols) computed (ra): now self.b.evaluate(symbols)
EvaluatePairLeft(op, b, symbols, ra) ==
  IF Abrupt(ra.ret) THEN ra
  ELSE EvaluatePairBoth(op, ra, Evaluate(ra.heap, b, symbols))

\* self.a.evaluate(symbols) (op) self.b.evaluate(symbols), left operand first
EvaluatePair(h, op, a, b, symbols) ==
  EvaluatePairLeft(op, b, symbols, Evaluate(h, a, symbols))

\* QuotientType.evaluate
QuotientTypeEvaluate(h, self, symbols) ==
  EvaluatePair(h, "truediv", h[self.v].a, h[self.v].b, symbols)

\* PowType.evaluate
PowTypeEvaluate(h, self, symbols) ==
  EvaluatePair(h, "pow", h[self.v].a, h[self.v].b, symbols)

\* value.evaluate(symbols), dispatched on the receiver's type; a float or
\* None has no such method
Evaluate(h, pv, symbols) ==
  CASE Kind(h, pv) = "Number" -> NumberEvaluate(h, pv, symbols)
    [] Kind(h, pv) = "Symbol" -> SymbolEvaluate(h, pv, symbols)
    [] Kind(h, pv) = "SumType" -> SumTypeEvaluate(h, pv, symbols)
    [] Kind(h, pv) = "ProductType" -> ProductTypeEvaluate(h, pv, symbols)
    [] Kind(h, pv) = "QuotientType" -> QuotientTypeEvaluate(h, pv, symbols)
    [] Kind(h, pv) = "PowType" -> PowTypeEvaluate(h, pv, symbols)
    [] OTHER -> R(h, Raise("AttributeError"))

\* --------------------------------------------------------------- simplify
\* the result of a simplify call: the heap, the outcome and, for
\* SumType.simplify, the working list as its flattening loop left it
\* (exited: the loop was left)
RS(h, ret, combined_values, exited) ==
  [heap |-> h, ret |-> ret, combined_values |-> combined_values, exited |-> exited]

RECURSIVE Simplify(_, _)
RECURSIVE SimplifyEach(_, _, _, _)

\* simplified_values.append(value.simplify()), value.simplify() computed (r)
SimplifyEachItem(values, i, simplified_values, r) ==
  IF Abrupt(r.ret)
  THEN [heap |-> r.heap, ret |-> r.ret, simplified_values |-> simplified_values]
  ELSE SimplifyEach(r.heap, values, i + 1, Append(simplified_values, r.ret))

\* for value in self.values: simplified_values.append(value.simplify())
SimplifyEach(h, values, i, simplified_values) ==
  IF i > Len(values)
  THEN [heap |-> h, ret |-> None, simplified_values |-> simplified_values]
  ELSE SimplifyEachItem(values, i, simplified_values, Simplify(h, values[i]))

\* the simplified values written into self.values
StoredInPlace(self, r) ==
  [r EXCEPT !.heap = [r.heap EXCEPT ![self.v].values = r.simplified_values]]

\* a plausible slip: the simplified values are stored back into self.values
\* instead of being collected in a list of their own
SimplifyValuesInPlace(h, self) ==
  StoredInPlace(self, SimplifyEach(h, h[self.v].values, 1, <<>>))

\* simplified_values = [] and the loop over self.values (the first step of
\* SumType.simplify and of ProductType.simplify)
SimplifyValues(h, self) == SimplifyEach(h, h[self.v].values, 1, <<>>)

\* for value in combined_values: if type(value) == SumType:
\*     new_combined_values += value.values
\* new_combined_values is the list being iterated, so the loop also visits
\* the items it appends
RECURSIVE FlattenFor(_, _, _)
FlattenFor(h, combined_values, j) ==
  IF j > Len(combined_values) THEN combined_values
  ELSE IF Kind(h, combined_values[j]) = "SumType"
       THEN FlattenFor(h, combined_values \o h[combined_values[j].v].values, j + 1)
       ELSE FlattenFor(h, combined_values, j + 1)

\* the test that ends the `while True` loop
NoSumTypes(h, combined_values) ==
  \A k \in 1..Len(combined_values) : Kind(h, combined_values[k]) # "SumType"

\* the end of a round of the `while True` loop
FlattenRound(h, new_combined_values) ==
  IF NoSumTypes(h, new_combined_values)
  THEN [ret |-> None, combined_values |-> new_combined_values]
  ELSE [ret |-> Hang, combined_values |-> new_combined_values]

\* the `while True` loop.  A SumType found in the list is never taken out of
\* it, so once a round ends with one in the list every later round does too:
\* the loop exits after its first round or never
FlattenWhile(h, combined_values) ==
  FlattenRound(h, FlattenFor(h, combined_values, 1))

\* the `for value in combined_values` loop that groups like terms.  like_terms
\* is a dict whose keys are the class Number (key 0 here) and Symbol objects,
\* which hash and compare by identity (keys are their heap addresses)
RECURSIVE GroupLikeTerms(_, _, _, _)

\* like_terms[key] = (the object just allocated), and on to the next item
GroupStored(like_terms, key, combined_values, i, n) ==
  GroupLikeTerms(n.heap,
                 IF key \in DOMAIN like_terms THEN [like_terms EXCEPT ![key] = n.ret]
                 ELSE like_terms @@ (key :> n.ret),
                 combined_values, i + 1)

\* ProductType([like_terms[value].values[0].value + 1, value]), where first is
\* like_terms[value].values[0]: only a Number has a .value
GroupSymbolAgain(h, like_terms, combined_values, i, value, first) ==
  IF Kind(h, first) # "Number" THEN R(h, Raise("AttributeError"))
  ELSE GroupStored(like_terms, value.v, combined_values, i,
                   New(h, ProductType(<<Num(h[first.v].value + 1), value>>)))

\* the body of the loop for one value
GroupValue(h, like_terms, combined_values, i, value) ==
  CASE Kind(h, value) = "Number" ->
         GroupStored(like_terms, 0, combined_values, i,
                     New(h, Number(h[like_terms[0].v].value + h[value.v].value)))
    [] Kind(h, value) = "Symbol" ->
         IF value.v \in DOMAIN like_terms
         THEN GroupSymbolAgain(h, like_terms, combined_values, i, value,
                               h[like_terms[value.v].v].values[1])
         ELSE GroupStored(like_terms, value.v, combined_values, i,
                          New(h, ProductType(<<Num(1), value>>)))
    [] OTHER -> GroupLikeTerms(h, like_terms, combined_values, i + 1)

GroupLikeTerms(h, like_terms, combined_values, i) ==
  IF i > Len(combined_values) THEN R(h, None)
  ELSE GroupValue(h, like_terms, combined_values, i, combined_values[i])

\* the end of SumType.simplify: there is no return statement, so a call that
\* completes returns None
SumTypeSimplifyGrouped(fl, g) == RS(g.heap, g.ret, fl.combined_values, TRUE)

\* like_terms = {Number: Number(0)} and the grouping loop
SumTypeSimplifyFlattened(sv, fl) ==
  IF Abrupt(fl.ret) THEN RS(sv.heap, fl.ret, fl.combined_values, FALSE)
  ELSE SumTypeSimplifyGrouped(fl,
         GroupLikeTerms(Append(sv.heap, Number(0)), (0 :> Ref(Len(sv.heap) + 1)),
                        fl.combined_values, 1))

\* combined_values = simplified_values and the flattening loop
SumTypeSimplifySimplified(sv) ==
  IF Abrupt(sv.ret) THEN RS(sv.heap, sv.ret, <<>>, FALSE)
  ELSE SumTypeSimplifyFlattened(sv, FlattenWhile(sv.heap, sv.simplified_values))

\* SumType.simplify
SumTypeSimplify(h, self) == SumTypeSimplifySimplified(SimplifyValues(h, self))

\* the end of ProductType.simplify: a TODO, so a call that completes returns None
ProductTypeSimplifySimplified(sv) ==
  IF Abrupt(sv.ret) THEN RS(sv.heap, sv.ret, <<>>, FALSE)
  ELSE RS(sv.heap, None, <<>>, FALSE)

\* ProductType.simplify
ProductTypeSimplify(h, self) == ProductTypeSimplifySimplified(SimplifyValues(h, self))

\* QuotientType.simplify, PowType.simplify: a docstring and a TODO
UnfinishedSimplify(h, self) == RS(h, None, <<>>, FALSE)

\* Number.simplify, Symbol.simplify
LeafSimplify(h, self) == RS(h, self, <<>>, FALSE)

\* value.simplify(), dispatched on the receiver's type
Simplify(h, pv) ==
  CASE Kind(h, pv) \in {"Number", "Symbol"} -> LeafSimplify(h, pv)
    [] Kind(h, pv) = "SumType" -> SumTypeSimplify(h, pv)
    [] Kind(h, pv) = "ProductType" -> ProductTypeSimplify(h, pv)
    [] Kind(h, pv) \in {"QuotientType", "PowType"} -> UnfinishedSimplify(h, pv)
    [] OTHER -> RS(h, Raise("AttributeError"), <<>>, FALSE)

\* ----------------------------------------------------------------- factor
\* factor of every class: return self
Factor(h, pv) ==
  IF pv.t = "ref" THEN R(h, pv) ELSE R(h, Raise("AttributeError"))

\* ------------------------------------------------------- object lifetime
\* the Python values an object holds
Fields(obj) ==
  CASE obj.kind \in {"SumType", "ProductType"} ->
         { obj.values[i] : i \in 1..Len(obj.values) }
    [] obj.kind \in {"QuotientType", "PowType"} -> { obj.a, obj.b }
    [] OTHER -> {}

\* the objects reachable from a value
RECURSIVE Reach(_, _)
Reach(h, pv) ==
  IF pv.t # "ref" THEN {}
  ELSE {pv.v} \cup UNION { Reach(h, c) : c \in Fields(h[pv.v]) }

\* When a call returns, the objects it allocated and did not return are
\* unreferenced and Python frees them: the heap keeps the n0 objects the
\* caller held before the call and whatever the returned value reaches.
\* Kept objects move down to fill the freed addresses.
Moved(keep, pv) ==
  IF pv.t = "ref" THEN Ref(Cardinality({ k \in keep : k <= pv.v })) ELSE pv

RECURSIVE MovedSeq(_, _, _)
MovedSeq(keep, s, i) ==
  IF i > Len(s) THEN <<>> ELSE <<Moved(keep, s[i])>> \o MovedSeq(keep, s, i + 1)

MovedObj(keep, obj) ==
  CASE obj.kind \in {"SumType", "ProductType"} ->
         [obj EXCEPT !.values = MovedSeq(keep, obj.values, 1)]
    [] obj.kind \in {"QuotientType", "PowType"} ->
         [obj EXCEPT !.a = Moved(keep, obj.a), !.b = Moved(keep, obj.b)]
    [] OTHER -> obj

RECURSIVE Compact(_, _, _)
Compact(h, keep, o) ==
  IF o > Len(h) THEN <<>>
  ELSE (IF o \in keep THEN <<MovedObj(keep, h[o])>> ELSE <<>>) \o Compact(h, keep, o + 1)

Released(h, keep, ret) == R(Compact(h, keep, 1), Moved(keep, ret))

Release(h, n0, ret) ==
  Released(h, (1..n0) \cup Reach(h, ret) \cup UNION { Reach(h, Ref(o)) : o \in 1..n0 },
           ret)

\* ------------------------------------------------------------------ state
VARIABLES
  heap,             \* the objects the caller holds, by address 1..Len(heap)
  call,             \* the last call made: what was called, on what, its outcome
  combined_values   \* the working list of the last SumType.simplify call when
                    \* its flattening loop ended (empty for any other call)

vars == <<heap, call, combined_values>>

\* the names a caller binds in `symbols`: the one-letter names of Names
BindNames == { n \in Names : Len(n) = 1 /\ InAsciiLetters(n) }

\* the dicts passed to evaluate
SymbolDicts == UNION { [D -> Floats] : D \in SUBSET BindNames }

NoSymbols == [n \in {} |-> 0]

\* op: the call; self, other: its operands; name: the string given to
\* Symbol(...); symbols: the dict given to evaluate; ret: its outcome; exited:
\* the flattening loop of SumType.simplify was left; src, srcself: when self
\* is the value the previous call returned, that call and its operand
CallRec(op, self, other, name, symbols, ret, exited, src, srcself) ==
  [op |-> op, self |-> self, other |-> other, name |-> name, symbols |-> symbols,
   ret |-> ret, exited |-> exited, src |-> src, srcself |-> srcself]

Construction(op, self, other, name, ret) ==
  CallRec(op, self, other, name, NoSymbols, ret, FALSE, "", None)

Refs(h) == { Ref(o) : o \in 1..Len(h) }

\* the lists a caller passes to SumType(...) and ProductType(...): zero, one
\* or two objects, which may be the same object twice
ValueLists(h) ==
  {<<>>} \cup { <<a>> : a \in Refs(h) } \cup { <<a, b>> : a, b \in Refs(h) }

Init ==
  /\ heap = <<>>
  /\ call = Construction("", None, None, <<>>, None)
  /\ combined_values = <<>>

\* A run is a caller building expressions and then calling an operation on
\* the expression built last (and possibly one more on what that returned):
\* Building holds until the operation is called
Building == call.op \notin {"simplify", "factor", "evaluate"}

\* the expression built last
Last == Ref(Len(heap))

\* the caller's state after a call: the objects it held and the returned
\* value (g), and the record of the call
Returns(g, rec, list) ==
  /\ heap' = g.heap
  /\ call' = [rec EXCEPT !.ret = g.ret]
  /\ combined_values' = list

\* a constructor or combinator call, with the heap and outcome it produced (r);
\* the caller builds while it holds fewer than MaxHeap objects
Built(op, self, other, name, r) ==
  /\ Building
  /\ Len(heap) < MaxHeap
  /\ Returns(Release(r.heap, Len(heap), r.ret),
             Construction(op, self, other, name, None), <<>>)

\* Number(value)
NewNumber(value) ==
  Built("Number", None, None, <<>>, New(heap, Number(value)))

\* Symbol(name)
NewSymbol(name) ==
  Built("Symbol", None, None, name, SymbolInit(heap, name))

\* SumType(values)
NewSumType(values) ==
  Built("SumType", None, None, <<>>, New(heap, SumType(values)))

\* ProductType(values)
NewProductType(values) ==
  Built("ProductType", None, None, <<>>, New(heap, ProductType(values)))

\* QuotientType(a, b)
NewQuotientType(a, b) ==
  Built("QuotientType", a, b, <<>>, New(heap, QuotientType(a, b)))

\* PowType(a, b)
NewPowType(a, b) ==
  Built("PowType", a, b, <<>>, New(heap, PowType(a, b)))

\* a + b
Add(a, b) ==
  Built("add", a, b, <<>>, BinaryOp(heap, "add", a, b))

\* a - b
Subtract(a, b) ==
  Built("sub", a, b, <<>>, BinaryOp(heap, "sub", a, b))

\* a * b
Multiply(a, b) ==
  Built("mul", a, b, <<>>, BinaryOp(heap, "mul", a, b))

\* a / b
Divide(a, b) ==
  Built("truediv", a, b, <<>>, BinaryOp(heap, "truediv", a, b))

\* a ** b
RaiseTo(a, b) ==
  Built("pow", a, b, <<>>, BinaryOp(heap, "pow", a, b))

\* -a
Negate(a) ==
  Built("neg", a, None, <<>>, Neg(heap, a))

\* the call as the caller sees it: r is what the method produced
Called(op, self, symbols, src, srcself, r, list, exited) ==
  Returns(Release(r.heap, Len(heap), r.ret),
          CallRec(op, self, None, <<>>, symbols, None, exited, src, srcself), list)

\* simplify, with its result
Simplified(self, src, srcself, r) ==
  Called("simplify", self, NoSymbols, src, srcself, r, r.combined_values, r.exited)

\* self.simplify(), on an object the caller holds or (src) on the value the
\* previous call returned
DoSimplify(self, src, srcself) ==
  Simplified(self, src, srcself, Simplify(heap, self))

\* self.factor()
DoFactor(self, src, srcself) ==
  Called("factor", self, NoSymbols, src, srcself, Factor(heap, self), <<>>, FALSE)

\* self.evaluate(symbols)
DoEvaluate(self, symbols, src, srcself) ==
  Called("evaluate", self, symbols, src, srcself, Evaluate(heap, self, symbols),
         <<>>, FALSE)

\* e.simplify()
CallSimplify == Building /\ Len(heap) >= 1 /\ DoSimplify(Last, "", None)

\* e.factor()
CallFactor == Building /\ Len(heap) >= 1 /\ DoFactor(Last, "", None)

\* e.evaluate(symbols)
CallEvaluate(symbols) ==
  Building /\ Len(heap) >= 1 /\ DoEvaluate(Last, symbols, "", None)

\* the previous call returned a value (it did not raise) and was itself made
\* on an object the caller built
Returned(ops) == call.op \in ops /\ call.src = "" /\ ~ Abrupt(call.ret)

\* e.simplify().simplify()
SimplifyResult ==
  /\ Returned({"simplify"})
  /\ DoSimplify(call.ret, call.op, call.self)

\* e.simplify().evaluate(symbols), e.factor().evaluate(symbols)
EvaluateResult(symbols) ==
  /\ Returned({"simplify", "factor"})
  /\ DoEvaluate(call.ret, symbols, call.op, call.self)

Next ==
  \/ \E value \in NumberValues : NewNumber(value)
  \/ \E name \in Names : NewSymbol(name)
  \/ \E values \in ValueLists(heap) : NewSumType(values)
  \/ \E values \in ValueLists(heap) : NewProductType(values)
  \/ \E a, b \in Refs(heap) : NewQuotientType(a, b)
  \/ \E a, b \in Refs(heap) : NewPowType(a, b)
  \/ \E a, b \in Refs(heap) : Add(a, b)
  \/ \E a, b \in Refs(heap) : Subtract(a, b)
  \/ \E a, b \in Refs(heap) : Multiply(a, b)
  \/ \E a, b \in Refs(heap) : Divide(a, b)
  \/ \E a, b \in Refs(heap) : RaiseTo(a, b)
  \/ \E a \in Refs(heap) : Negate(a)
  \/ CallSimplify
  \/ CallFactor
  \/ \E symbols \in SymbolDicts : CallEvaluate(symbols)
  \/ SimplifyResult
  \/ \E symbols \in SymbolDicts : EvaluateResult(symbols)

Spec == Init /\ [][Next]_vars

\* the same program with the caller building at most MaxSmall objects
Small == Len(heap) < MaxSmall

NextSmall ==
  \/ \E value \in NumberValues : Small /\ NewNumber(value)
  \/ \E name \in Names : Small /\ NewSymbol(name)
  \/ \E values \in ValueLists(heap) : Small /\ NewSumType(values)
  \/ \E values \in ValueLists(heap) : Small /\ NewProductType(values)
  \/ \E a, b \in Refs(heap) : Small /\ NewQuotientType(a, b)
  \/ \E a, b \in Refs(heap) : Small /\ NewPowType(a, b)
  \/ \E a, b \in Refs(heap) : Small /\ Add(a, b)
  \/ \E a, b \in Refs(heap) : Small /\ Subtract(a, b)
  \/ \E a, b \in Refs(heap) : Small /\ Multiply(a, b)
  \/ \E a, b \in Refs(heap) : Small /\ Divide(a, b)
  \/ \E a, b \in Refs(heap) : Small /\ RaiseTo(a, b)
  \/ \E a \in Refs(heap) : Small /\ Negate(a)
  \/ CallSimplify
  \/ CallFactor
  \/ \E symbols \in SymbolDicts : CallEvaluate(symbols)
  \/ SimplifyResult
  \/ \E symbols \in SymbolDicts : EvaluateResult(symbols)

SpecSmall == Init /\ [][NextSmall]_vars


\* ================================================================= claims
\* What the properties speak of: expressions as trees, compared by structure.
Constant(value) == [kind |-> "Number", value |-> value]
Variable(name) == [kind |-> "Symbol", name |-> name]
Sum(terms) == [kind |-> "SumType", values |-> terms]
Product(factors) == [kind |-> "ProductType", values |-> factors]
Quotient(numerator, denominator) ==
  [kind |-> "QuotientType", a |-> numerator, b |-> denominator]
Power(base, exponent) == [kind |-> "PowType", a |-> base, b |-> exponent]

\* the tree a value stands for (None, floats and exceptions are their own trees)
RECURSIVE Tree(_, _)
RECURSIVE TreeSeq(_, _, _)
TreeSeq(h, s, i) ==
  IF i > Len(s) THEN <<>> ELSE <<Tree(h, s[i])>> \o TreeSeq(h, s, i + 1)

Tree(h, pv) ==
  CASE pv.t # "ref" -> [kind |-> pv.t, value |-> pv.v]
    [] Kind(h, pv) \in {"SumType", "ProductType"} ->
         [kind |-> h[pv.v].kind, values |-> TreeSeq(h, h[pv.v].values, 1)]
    [] Kind(h, pv) \in {"QuotientType", "PowType"} ->
         [kind |-> h[pv.v].kind, a |-> Tree(h, h[pv.v].a), b |-> Tree(h, h[pv.v].b)]
    [] OTHER -> h[pv.v]

\* the names of the variables occurring in an expression
RECURSIVE FreeNames(_, _)
FreeNames(h, pv) ==
  IF pv.t # "ref" THEN {}
  ELSE IF Kind(h, pv) = "Symbol" THEN { h[pv.v].name }
  ELSE UNION { FreeNames(h, c) : c \in Fields(h[pv.v]) }

\* a result is a number: a float, or a Number object (what Number.evaluate
\* returns), taken for its value
IsNumber(r) == r.ret.t = "num" \/ Kind(r.heap, r.ret) = "Number"
NumberOf(r) == IF r.ret.t = "num" THEN r.ret.v ELSE r.heap[r.ret.v].value
SameNumber(r1, r2) == IsNumber(r1) /\ IsNumber(r2) /\ NumberOf(r1) = NumberOf(r2)

Operation(op) == call.op = op /\ call.src = ""
Operations == {"simplify", "factor", "evaluate"}
Combinators == {"add", "sub", "mul", "truediv", "pow", "neg"}

\* C1: simplify is idempotent: when e.simplify() returned, simplifying what it
\* returned succeeds and gives a structurally equal expression.
SimplifyIdempotent ==
  (call.op = "simplify" /\ call.src = "simplify")
    => (~ Abrupt(call.ret) /\ Tree(heap, call.ret) = Tree(heap, call.self))

\* C2: value preservation: with every variable of e bound, evaluating
\* simplify(e) or factor(e) gives the same number as evaluating e.
ValuePreserved ==
  (/\ call.op = "evaluate"
   /\ call.src \in {"simplify", "factor"}
   /\ FreeNames(heap, call.srcself) \subseteq DOMAIN call.symbols)
    => SameNumber(R(heap, call.ret), Evaluate(heap, call.srcself, call.symbols))

\* C3: simplify of Sum([Variable(v), Variable(v)]) returns
\* Product([Constant(2), Variable(v)]).
IsXPlusX(h, pv) ==
  /\ Kind(h, pv) = "SumType"
  /\ Len(h[pv.v].values) = 2
  /\ \A i \in 1..2 : Kind(h, h[pv.v].values[i]) = "Symbol"
  /\ h[h[pv.v].values[1].v].name = h[h[pv.v].values[2].v].name

LikeTermsMerged ==
  (Operation("simplify") /\ IsXPlusX(heap, call.self))
    => Tree(heap, call.ret)
         = Product(<<Constant(2), Variable(heap[heap[call.self.v].values[1].v].name)>>)

\* C4: factor of a Sum whose coefficients have a common factor other than 1
\* returns Product([commonFactor, Sum(residualTerms)]); stated for Sums of
\* Constants, whose coefficients are their values.
RECURSIVE Gcd(_, _)
Gcd(a, b) == IF b = 0 THEN a ELSE Gcd(b, a % b)

RECURSIVE GcdOfConstants(_, _, _)
GcdOfConstants(h, values, i) ==
  IF i > Len(values) THEN 0
  ELSE Gcd(h[values[i].v].value, GcdOfConstants(h, values, i + 1))

RECURSIVE Residuals(_, _, _, _)
Residuals(h, values, i, g) ==
  IF i > Len(values) THEN <<>>
  ELSE <<Constant(h[values[i].v].value \div g)>> \o Residuals(h, values, i + 1, g)

IsSumOfConstants(h, pv) ==
  /\ Kind(h, pv) = "SumType"
  /\ \A i \in 1..Len(h[pv.v].values) :
        Kind(h, h[pv.v].values[i]) = "Number" /\ h[h[pv.v].values[i].v].value >= 0

FactorExtractsGCF ==
  (/\ Operation("factor")
   /\ IsSumOfConstants(heap, call.self)
   /\ GcdOfConstants(heap, heap[call.self.v].values, 1) > 1)
    => Tree(heap, call.ret)
         = Product(<<Constant(GcdOfConstants(heap, heap[call.self.v].values, 1)),
                     Sum(Residuals(heap, heap[call.self.v].values, 1,
                                   GcdOfConstants(heap, heap[call.self.v].values, 1)))>>)

\* C5: Symbol(name) stores the name in a new Symbol exactly when name is one
\* character in a-z or A-Z; for every other string it raises InvalidSymbolName
\* and no object is made.
LettersAZ ==
  {"a","b","c","d","e","f","g","h","i","j","k","l","m",
   "n","o","p","q","r","s","t","u","v","w","x","y","z",
   "A","B","C","D","E","F","G","H","I","J","K","L","M",
   "N","O","P","Q","R","S","T","U","V","W","X","Y","Z"}

SymbolNameValidated ==
  [][ call'.op = "Symbol" =>
        IF Len(call'.name) = 1 /\ call'.name[1] \in LettersAZ
        THEN /\ heap' = Append(heap, Symbol(call'.name))
             /\ call'.ret = Ref(Len(heap'))
        ELSE /\ heap' = heap
             /\ call'.ret = Raise("InvalidSymbolName") ]_vars

\* C5 witness: a two-letter name was refused
SymbolNameRefused ==
  /\ call.op = "Symbol"
  /\ call.name = <<"x", "y">>
  /\ call.ret = Raise("InvalidSymbolName")

\* C6: evaluate of a Product whose factors evaluate to numbers returns the
\* product of those numbers; the empty Product evaluates to 1.
RECURSIVE FactorsProduct(_, _, _, _)
FactorsProduct(h, values, i, symbols) ==
  IF i > Len(values) THEN 1
  ELSE NumberOf(Evaluate(h, values[i], symbols))
         * FactorsProduct(h, values, i + 1, symbols)

ProductEvaluates ==
  (/\ Operation("evaluate")
   /\ Kind(heap, call.self) = "ProductType"
   /\ \A i \in 1..Len(heap[call.self.v].values) :
         IsNumber(Evaluate(heap, heap[call.self.v].values[i], call.symbols)))
    => /\ IsNumber(R(heap, call.ret))
       /\ NumberOf(R(heap, call.ret))
            = FactorsProduct(heap, heap[call.self.v].values, 1, call.symbols)

\* C7: evaluate of a Quotient whose denominator evaluates to 0 raises the
\* division-by-zero error (Python's ZeroDivisionError) and returns nothing.
DenominatorIsZero ==
  /\ Operation("evaluate")
  /\ Kind(heap, call.self) = "QuotientType"
  /\ ~ Abrupt(Evaluate(heap, heap[call.self.v].a, call.symbols).ret)
  /\ IsNumber(Evaluate(heap, heap[call.self.v].b, call.symbols))
  /\ NumberOf(Evaluate(heap, heap[call.self.v].b, call.symbols)) = 0

QuotientByZeroFails == DenominatorIsZero => call.ret = Raise("ZeroDivisionError")

\* C8: every combinator returns the composite node of its operands:
\* a+b Sum([a,b]), a-b Sum([a,-b]), a*b Product([a,b]), a/b Quotient(a,b),
\* a**b Power(a,b), -a Product([Constant(-1),a]) (the negated Constant for a
\* Constant); none fails or returns None.
Negated(t) ==
  IF t.kind = "Number" THEN Constant(- t.value) ELSE Product(<<Constant(-1), t>>)

Combined(op, a, b) ==
  CASE op = "add" -> Sum(<<a, b>>)
    [] op = "sub" -> Sum(<<a, Negated(b)>>)
    [] op = "mul" -> Product(<<a, b>>)
    [] op = "truediv" -> Quotient(a, b)
    [] op = "pow" -> Power(a, b)
    [] op = "neg" -> Negated(a)

CombinatorsBuild ==
  call.op \in Combinators
    => Tree(heap, call.ret)
         = Combined(call.op, Tree(heap, call.self), Tree(heap, call.other))

\* C9: simplify, factor and evaluate never mutate their operand: whether the
\* call returns or raises, every object that existed before it, nested Sums
\* included, is afterwards what it was.
OperandsNotMutated ==
  [][ call'.op \in Operations =>
        /\ Len(heap') >= Len(heap)
        /\ \A o \in 1..Len(heap) : heap'[o] = heap[o] ]_vars

\* C9 witness: simplify has run to its end on a Sum that holds a nested Sum
NestedSumSimplified ==
  /\ Operation("simplify")
  /\ Kind(heap, call.self) = "SumType"
  /\ \E i \in 1..Len(heap[call.self.v].values) :
        Kind(heap, heap[call.self.v].values[i]) = "SumType"
  /\ call.exited
  /\ call.ret = None

\* C10: the flattening loop of simplify on a Sum ends, and then the working
\* list holds no Sum and exactly the non-Sum leaves of the nesting, each once;
\* stated for nestings of Sums over Constants and Variables, which simplify
\* leaves as they are.
RECURSIVE Leaves(_, _, _)
Leaves(h, values, i) ==
  IF i > Len(values) THEN <<>>
  ELSE (IF Kind(h, values[i]) = "SumType" THEN Leaves(h, h[values[i].v].values, 1)
        ELSE <<values[i]>>) \o Leaves(h, values, i + 1)

Count(s, x) == Cardinality({ i \in 1..Len(s) : s[i] = x })

SameItems(s, t) ==
  /\ Len(s) = Len(t)
  /\ \A i \in 1..Len(s) : Count(s, s[i]) = Count(t, s[i])

IsNestedSum(h, pv) ==
  /\ Kind(h, pv) = "SumType"
  /\ \E i \in 1..Len(h[pv.v].values) : Kind(h, h[pv.v].values[i]) = "SumType"
  /\ \A i \in 1..Len(Leaves(h, h[pv.v].values, 1)) :
        Kind(h, Leaves(h, h[pv.v].values, 1)[i]) \in {"Number", "Symbol"}

FlattenedFully ==
  (Operation("simplify") /\ IsNestedSum(heap, call.self))
    => /\ call.exited
       /\ NoSumTypes(heap, combined_values)
       /\ SameItems(combined_values, Leaves(heap, heap[call.self.v].values, 1))

====
